---- MODULE Spec2Model ----
(***************************************************************************)
(* The two windowed GPU programs of the repository as state machines:      *)
(*   wgpu-test      (src/wgpu-test/src/main.rs): clears the window every   *)
(*                  redraw, handles resize and close, retries acquisition  *)
(*   rotating-cube  (src/rotating-cube/src/main.rs): rotates a cube, one   *)
(*                  update() + render() per MainEventsCleared              *)
(* The host event loop (winit) and the GPU library (wgpu) are the          *)
(* environment: the host resizes the window and queues events, an image    *)
(* acquisition returns Ok or one of the SurfaceError kinds.                *)
(* SpecCubeLife starts rotating-cube before State::new and follows its     *)
(* creation calls one by one; the other specifications start after it.     *)
(*                                                                         *)
(* The third program is the Kafka consumer                                 *)
(*   kafka-connector (src/kafka-connector/src/main.rs): reads a message    *)
(*                  stream and spawns one task per message                 *)
(* under SpecKafka; the stream and the task scheduler are its environment. *)
(*                                                                         *)
(* Single-precision angles are integers in units of 2^-31 radian, rounded  *)
(* to 24 significant bits as f32 addition rounds them.                     *)
(***************************************************************************)
EXTENDS Integers, Sequences, FiniteSets

VARIABLES
    program,          \* which binary runs: "wgpu_test" or "rotating_cube"
    pc,               \* position of the event-loop closure / process
    control_flow,     \* *control_flow as the host sees it: "Poll" or "Exit"
    window_size,      \* the window's inner size, owned by the host
    events,           \* window events queued by the host, not yet delivered
    redraw_requested, \* window.request_redraw() called, RedrawRequested due
    caps,             \* surface.get_capabilities(&adapter)
    config,           \* State.config
    surface,          \* the configuration State.surface was last configured with
    rotation,         \* State.rotation (f32, units of 2^-31)
    model_buffer,     \* GPU contents of State.model_buffer
    camera_buffer,    \* GPU contents of State.camera_buffer
    queue,            \* State.queue: buffer writes staged for the next submit
    frame,            \* the acquired SurfaceTexture, or NoFrame
    acq,              \* outcomes of this tick's get_current_texture() calls
    tick,             \* number of ticks started
    wrote_tick,       \* tick of the last write_buffer to the model buffer
    submitted_tick,   \* tick of the last queue.submit
    presented_tick,   \* tick of the last frame.present
    draw_model,       \* model matrix read by the last submitted draw
    last_resized,     \* size of the last Resized event delivered to the closure
    close_processed,  \* a CloseRequested event has been delivered to the closure
    exit_code,        \* process exit code, NoCode while running
    start_size,       \* window.inner_size() read in State::new
    created,          \* what State::new has created so far, in order
    resources,        \* the long-lived GPU resources held by State
    dropped,          \* what has been dropped at the end of the process, in order
    encoder,          \* commands recorded by this tick's command encoder
    drawn,            \* the draws run by the last queue.submit
    received,         \* kafka-connector: the items stream.next() has yielded
    tasks,            \* kafka-connector: the tasks spawned, in spawn order
    stdout,           \* kafka-connector: payloads printed by process_message
    stderr,           \* kafka-connector: read errors reported by the loop
    finished          \* kafka-connector: messages whose task has returned, in order

vars == <<program, pc, control_flow, window_size, events, redraw_requested, caps,
          config, surface, rotation, model_buffer, camera_buffer, queue, frame, acq,
          tick, wrote_tick, submitted_tick, presented_tick, draw_model,
          last_resized, close_processed, exit_code, start_size, created,
          resources, dropped, encoder, drawn, received, tasks, stdout, stderr,
          finished>>

----------------------------------------------------------------------------
\* Bounds of the model.
MaxTicks == 6
MaxQueue == 1
\* Number of items the message stream yields before it can only end.
MaxItems == 3

\* Window sizes the host reports (0x0: a minimised window).
InputSizes == {<<0, 0>>, <<2, 1>>, <<1, 2>>}

\* Capabilities a backend may report.
FormatLists == {<<"Bgra8Unorm", "Bgra8UnormSrgb">>, <<"Rgba8Unorm">>}
PresentModeLists == {<<"Fifo">>, <<"Mailbox", "Fifo">>}

NoFrame == [none |-> TRUE]
NoDraw == [none |-> TRUE]
NoSize == <<>>
\* exit_code is <<>> while the process runs, <<code>> once it has ended.
NoCode == <<>>
\* A panic (unwrap on Err) ends a Rust process with code 101.
PanicCode == 101

Programs == {"wgpu_test", "rotating_cube"}

\* Result<SurfaceTexture, SurfaceError> of Surface::get_current_texture.
SurfaceErrors == {"Timeout", "Outdated", "Lost", "OutOfMemory"}
Outcomes == {"Ok"} \cup SurfaceErrors

----------------------------------------------------------------------------
\* Single-precision arithmetic on non-negative values in units of 2^-31.

RECURSIVE Pow2(_)
Pow2(n) == IF n = 0 THEN 1 ELSE 2 * Pow2(n - 1)

RECURSIVE BitLen(_)
BitLen(x) == IF x = 0 THEN 0 ELSE 1 + BitLen(x \div 2)

\* Width of an f32 significand.
MantissaBits == 24

\* Round to 24 significant bits, ties to even.
RoundF32(x) ==
    IF BitLen(x) <= MantissaBits THEN x
    ELSE LET q  == Pow2(BitLen(x) - MantissaBits)
             lo == (x \div q) * q
             r  == x - lo
         IN  IF 2 * r < q THEN lo
             ELSE IF 2 * r > q THEN lo + q
             ELSE IF (x \div q) % 2 = 0 THEN lo ELSE lo + q

F32Add(a, b) == RoundF32(a + b)

\* The literal 0.01 as f32: 0x3C23D70A = 10737418 * 2^-30.
RotationStep == 21474836

\* self.rotation * 0.5: halving is exact in binary floating point.
HalfAngle(a) == a \div 2

\* Mat4::from_rotation_y(y) * Mat4::from_rotation_x(x), kept symbolic: the
\* product is a function of the two angles.
RotationYX(y, x) == [roty |-> y, rotx |-> x]

\* Mat4::IDENTITY: the rotation by no angle.
Identity == RotationYX(0, 0)

ModelTransform(angle) == RotationYX(angle, HalfAngle(angle))

\* proj * view of the fixed camera: a function of the startup aspect ratio.
CameraUniform(w, h) == [eye |-> <<3, 3, 3>>, fovy |-> 45, aspect |-> <<w, h>>]

----------------------------------------------------------------------------
\* Surface configuration.

IsSrgb(f) == f \in {"Bgra8UnormSrgb", "Rgba8UnormSrgb"}

\* formats.iter().copied().find(|f| f.is_srgb()).unwrap_or(formats[0])
WgpuFormat(formats) ==
    IF \E i \in 1..Len(formats) : IsSrgb(formats[i])
    THEN formats[CHOOSE i \in 1..Len(formats) :
                    /\ IsSrgb(formats[i])
                    /\ \A j \in 1..(i - 1) : ~IsSrgb(formats[j])]
    ELSE formats[1]

WgpuConfig(c, size) ==
    [width |-> size[1], height |-> size[2],
     format |-> WgpuFormat(c.formats), present_mode |-> c.present_modes[1]]

CubeConfig(c, size) ==
    [width |-> size[1], height |-> size[2],
     format |-> c.formats[1], present_mode |-> "Fifo"]

\* surface.configure(&device, &config): the surface takes the configuration.
Configure(cfg) == cfg

\* The texture handed out has the size the surface is configured with.
Texture(s) == [none |-> FALSE, width |-> s.width, height |-> s.height]

Running == pc \notin {"Exited", "Aborted"}

IsErr(o) == o \in SurfaceErrors

----------------------------------------------------------------------------
\* The cube and the long-lived resources of rotating-cube.

\* let vertices: &[f32]: x, y, z, r, g, b per vertex.
VertexData ==
    << -1, -1, -1,  1, 0, 0,
        1, -1, -1,  0, 1, 0,
        1,  1, -1,  0, 0, 1,
       -1,  1, -1,  1, 1, 0,
       -1, -1,  1,  1, 0, 1,
        1, -1,  1,  0, 1, 1,
        1,  1,  1,  1, 1, 1,
       -1,  1,  1,  0, 0, 0 >>

\* array_stride: 6 * 4: six floats of four bytes per vertex.
FloatsPerVertex == 6
BytesPerFloat == 4

NumVertices == Len(VertexData) \div FloatsPerVertex

\* let indices: &[u16]
Indices ==
    << 0, 1, 2,  2, 3, 0,
       4, 5, 6,  6, 7, 4,
       0, 4, 7,  7, 3, 0,
       1, 5, 6,  6, 2, 1,
       3, 2, 6,  6, 7, 3,
       0, 1, 5,  5, 4, 0 >>

Unset == [unset |-> TRUE]

NoResources ==
    [vertex_buffer |-> Unset, index_buffer |-> Unset, num_indices |-> Unset,
     bind_group |-> Unset, render_pipeline |-> Unset]

\* What each creation call of State::new yields.
VertexBuffer == [floats |-> VertexData]
IndexBuffer == [indices |-> Indices]
\* num_indices: indices.len() as u32
NumIndices == [count |-> Len(Indices)]
\* BindGroupEntry { binding: 0, camera_buffer }, { binding: 1, model_buffer }
BindGroup == [entries |-> <<"camera_buffer", "model_buffer">>]
RenderPipeline(cfg) ==
    [format |-> cfg.format, stride |-> FloatsPerVertex * BytesPerFloat,
     offsets |-> <<0, 12>>, depth_stencil |-> FALSE]

CubeResources(cfg) ==
    [vertex_buffer |-> VertexBuffer, index_buffer |-> IndexBuffer,
     num_indices |-> NumIndices, bind_group |-> BindGroup,
     render_pipeline |-> RenderPipeline(cfg)]

\* Variant: the bind group is built before the model buffer it binds.
CubeNewSteps_BindFirst ==
    << <<"instance">>, <<"surface">>, <<"adapter">>, <<"device", "queue">>,
       <<"config">>, <<"vertex_buffer">>, <<"index_buffer">>,
       <<"camera_buffer">>, <<"bind_group_layout">>, <<"bind_group">>,
       <<"model_buffer">>, <<"shader">>, <<"pipeline_layout">>,
       <<"render_pipeline">>, <<"state">> >>

\* The calls of State::new in program order, each with what it creates.
CubeNewSteps ==
    << <<"instance">>, <<"surface">>, <<"adapter">>, <<"device", "queue">>,
       <<"config">>, <<"vertex_buffer">>, <<"index_buffer">>,
       <<"camera_buffer">>, <<"model_buffer">>, <<"bind_group_layout">>,
       <<"bind_group">>, <<"shader">>, <<"pipeline_layout">>,
       <<"render_pipeline">>, <<"state">> >>

WgpuNewSteps ==
    << <<"instance">>, <<"surface">>, <<"adapter">>, <<"device", "queue">>,
       <<"config">>, <<"state">> >>

RECURSIVE Flatten(_)
Flatten(ss) == IF ss = <<>> THEN <<>> ELSE Head(ss) \o Flatten(Tail(ss))

NewSteps(prog) == IF prog = "wgpu_test" THEN WgpuNewSteps ELSE CubeNewSteps

\* Everything State::new creates, in order.
NewOrder(prog) == Flatten(NewSteps(prog))

\* What each call of State::new takes as receiver or argument.
Deps ==
    [instance |-> {},
     surface |-> {"instance"},
     adapter |-> {"instance"},
     device |-> {"adapter"},
     queue |-> {"adapter"},
     config |-> {"surface", "adapter", "device"},
     vertex_buffer |-> {"device"},
     index_buffer |-> {"device"},
     camera_buffer |-> {"device", "config"},
     model_buffer |-> {"device"},
     bind_group_layout |-> {"device"},
     bind_group |-> {"device", "bind_group_layout", "camera_buffer", "model_buffer"},
     shader |-> {"device"},
     pipeline_layout |-> {"device", "bind_group_layout"},
     render_pipeline |-> {"device", "pipeline_layout", "shader", "config"},
     state |-> {"surface", "device", "queue", "config", "render_pipeline",
                "vertex_buffer", "index_buffer", "camera_buffer", "model_buffer",
                "bind_group"}]

\* The fields of struct State in declaration order: the order they are dropped in.
CubeFields ==
    <<"surface", "device", "queue", "config", "render_pipeline", "vertex_buffer",
      "index_buffer", "num_indices", "camera_buffer", "model_buffer", "bind_group",
      "rotation">>

WgpuFields == <<"surface", "device", "queue", "config">>

\* Dropping State drops its fields in declaration order.
DropOrder(prog) == IF prog = "wgpu_test" THEN WgpuFields ELSE CubeFields

\* Variant: only the first triangle is drawn.
DrawIndexed_FirstTriangle(n) ==
    [op |-> "draw_indexed", first |-> 0, count |-> 3, base_vertex |-> 0,
     instances |-> 1]

\* pass.draw_indexed(0..self.num_indices, 0, 0..1)
DrawIndexed(n) ==
    [op |-> "draw_indexed", first |-> 0, count |-> n, base_vertex |-> 0,
     instances |-> 1]

\* LoadOp::Clear(wgpu::Color::BLACK)
ClearBlack == [op |-> "clear"]

\* What a submitted command does: a draw fetches its index range from the
\* index buffer and reads the model buffer.
Execute(cmd, res, model) ==
    [indices |-> SubSeq(res.index_buffer.indices, cmd.first + 1, cmd.first + cmd.count),
     instances |-> cmd.instances,
     model |-> model]

RECURSIVE Draws(_, _, _)
Draws(cmds, res, model) ==
    IF cmds = <<>> THEN <<>>
    ELSE IF Head(cmds).op = "draw_indexed"
         THEN <<Execute(Head(cmds), res, model)>> \o Draws(Tail(cmds), res, model)
         ELSE Draws(Tail(cmds), res, model)

----------------------------------------------------------------------------
\* State after State::new and before the first event.

Init ==
    /\ program \in Programs
    /\ pc = "Idle"
    /\ control_flow = "Poll"
    /\ window_size \in InputSizes
    /\ start_size = window_size
    /\ events = <<>>
    /\ redraw_requested = FALSE
    /\ caps \in [formats : FormatLists, present_modes : PresentModeLists]
    /\ config = IF program = "wgpu_test" THEN WgpuConfig(caps, window_size)
                                         ELSE CubeConfig(caps, window_size)
    /\ surface = Configure(config)
    /\ rotation = 0
    /\ model_buffer = Identity
    /\ camera_buffer = CameraUniform(config.width, config.height)
    /\ queue = <<>>
    /\ frame = NoFrame
    /\ acq = <<>>
    /\ tick = 0
    /\ wrote_tick = 0
    /\ submitted_tick = 0
    /\ presented_tick = 0
    /\ draw_model = NoDraw
    /\ last_resized = NoSize
    /\ close_processed = FALSE
    /\ exit_code = NoCode
    /\ created = NewOrder(program)
    /\ resources = IF program = "wgpu_test" THEN NoResources
                                            ELSE CubeResources(config)
    /\ dropped = <<>>
    /\ encoder = <<>>
    /\ drawn = <<>>
    /\ received = <<>>
    /\ tasks = <<>>
    /\ stdout = <<>>
    /\ stderr = <<>>
    /\ finished = <<>>

InitWgpu == Init /\ program = "wgpu_test"
InitCube == Init /\ program = "rotating_cube"

\* Groups of variables, for UNCHANGED.
kafkaVars == <<received, tasks, stdout, stderr, finished>>
fixedVars == <<program, caps, start_size, created, resources, kafkaVars>>
hostVars == <<window_size, events, redraw_requested>>
surfVars == <<config, surface>>
gpuVars == <<rotation, model_buffer, camera_buffer, queue, draw_model>>
tickVars == <<frame, acq, tick, wrote_tick, submitted_tick, presented_tick>>
procVars == <<pc, control_flow, exit_code, dropped>>
seenVars == <<last_resized, close_processed>>
passVars == <<encoder, drawn>>

----------------------------------------------------------------------------
\* The host: it owns the window and queues window events for the closure.

ResizedEvent(s) == [type |-> "Resized", size |-> s]
CloseEvent == [type |-> "CloseRequested", size |-> NoSize]

\* The user resizes (or minimises) the window; a Resized event is queued.
HostResize ==
    \E s \in InputSizes \ {window_size} :
        /\ Running
        /\ Len(events) < MaxQueue
        /\ window_size' = s
        /\ events' = Append(events, ResizedEvent(s))
        /\ UNCHANGED <<fixedVars, passVars, redraw_requested, surfVars, gpuVars, tickVars,
                       procVars, seenVars>>

\* The user asks to close the window; a CloseRequested event is queued.
HostClose ==
    /\ Running
    /\ Len(events) < MaxQueue
    /\ events' = Append(events, CloseEvent)
    /\ UNCHANGED <<fixedVars, passVars, window_size, redraw_requested, surfVars, gpuVars,
                   tickVars, procVars, seenVars>>

\* Variant: the host calls the closure again while a call is still running.
Deliverable_Reentrant == control_flow = "Poll"

\* An event is delivered only between two calls of the closure, while the loop
\* has not been told to exit; a requested redraw is delivered before the next
\* window event.
Deliverable == pc = "Idle" /\ control_flow = "Poll"

\* ControlFlow::Exit: the loop stops and event_loop.run ends the process.
LoopExit ==
    /\ pc = "Idle"
    /\ control_flow = "Exit"
    /\ pc' = "Exited"
    /\ exit_code' = <<0>>
    /\ dropped' = DropOrder(program)
    /\ UNCHANGED <<fixedVars, passVars, hostVars, surfVars, gpuVars, tickVars, control_flow,
                   seenVars>>

----------------------------------------------------------------------------
\* wgpu-test: the closure of event_loop.run.

\* WindowEvent::CloseRequested => *control_flow = ControlFlow::Exit
WgpuCloseRequested ==
    /\ program = "wgpu_test"
    /\ Deliverable /\ ~redraw_requested
    /\ events # <<>> /\ Head(events).type = "CloseRequested"
    /\ events' = Tail(events)
    /\ control_flow' = "Exit"
    /\ close_processed' = TRUE
    /\ UNCHANGED <<fixedVars, passVars, window_size, redraw_requested, surfVars, gpuVars,
                   tickVars, pc, exit_code, dropped, last_resized>>

\* WindowEvent::Resized(size): store the size, reconfigure the surface.
WgpuResized ==
    /\ program = "wgpu_test"
    /\ Deliverable /\ ~redraw_requested
    /\ events # <<>> /\ Head(events).type = "Resized"
    /\ LET size == Head(events).size
           cfg  == [config EXCEPT !.width = size[1], !.height = size[2]]
       IN  /\ config' = cfg
           /\ surface' = Configure(cfg)
           /\ last_resized' = size
    /\ events' = Tail(events)
    /\ UNCHANGED <<fixedVars, passVars, window_size, redraw_requested, gpuVars, tickVars,
                   procVars, close_processed>>

\* Event::MainEventsCleared => window.request_redraw()
WgpuMainEventsCleared ==
    /\ program = "wgpu_test"
    /\ Deliverable /\ ~redraw_requested
    /\ events = <<>>
    /\ redraw_requested' = TRUE
    /\ UNCHANGED <<fixedVars, passVars, window_size, events, surfVars, gpuVars, tickVars,
                   procVars, seenVars>>

\* Event::RedrawRequested: a tick starts.
WgpuRedrawRequested ==
    /\ program = "wgpu_test"
    /\ Deliverable /\ redraw_requested
    /\ tick < MaxTicks
    /\ redraw_requested' = FALSE
    /\ tick' = tick + 1
    /\ acq' = <<>>
    /\ pc' = "Acquiring"
    /\ UNCHANGED <<fixedVars, passVars, window_size, events, surfVars, gpuVars, frame,
                   wrote_tick, submitted_tick, presented_tick, control_flow,
                   exit_code, dropped, seenVars>>

\* Variant: the Err arm re-reads the window size into config before it
\* reconfigures.
WgpuAcquire_Resize ==
    \E o \in Outcomes :
        /\ program = "wgpu_test"
        /\ pc = "Acquiring" /\ acq = <<>>
        /\ acq' = <<o>>
        /\ IF o = "Ok"
           THEN /\ frame' = Texture(surface)
                /\ pc' = "Recording"
                /\ UNCHANGED <<config, surface>>
           ELSE /\ config' = [config EXCEPT !.width = window_size[1],
                                            !.height = window_size[2]]
                /\ surface' = Configure(config')
                /\ UNCHANGED <<frame, pc>>
        /\ UNCHANGED <<fixedVars, passVars, hostVars, gpuVars, tick, wrote_tick,
                       submitted_tick, presented_tick, control_flow, exit_code, dropped,
                       seenVars>>

\* match state.surface.get_current_texture(): Ok(frame) => frame,
\* Err(_) => state.surface.configure(&state.device, &state.config) and retry.
WgpuAcquire ==
    \E o \in Outcomes :
        /\ program = "wgpu_test"
        /\ pc = "Acquiring" /\ acq = <<>>
        /\ acq' = <<o>>
        /\ IF o = "Ok"
           THEN /\ frame' = Texture(surface)
                /\ pc' = "Recording"
                /\ UNCHANGED surface
           ELSE /\ surface' = Configure(config)
                /\ UNCHANGED <<frame, pc>>
        /\ UNCHANGED <<fixedVars, passVars, hostVars, config, gpuVars, tick, wrote_tick,
                       submitted_tick, presented_tick, control_flow, exit_code, dropped,
                       seenVars>>

\* Variant: a failed retry reconfigures and tries again instead of panicking.
WgpuRetryAcquire_Loop ==
    \E o \in Outcomes :
        /\ program = "wgpu_test"
        /\ pc = "Acquiring" /\ Len(acq) \in 1..3
        /\ acq' = Append(acq, o)
        /\ IF o = "Ok"
           THEN /\ frame' = Texture(surface)
                /\ pc' = "Recording"
           ELSE UNCHANGED <<frame, pc>>
        /\ UNCHANGED <<fixedVars, passVars, hostVars, surfVars, gpuVars, tick, wrote_tick,
                       submitted_tick, presented_tick, control_flow, exit_code, dropped,
                       seenVars>>

\* state.surface.get_current_texture().unwrap(): the retry; Err panics.
WgpuRetryAcquire ==
    \E o \in Outcomes :
        /\ program = "wgpu_test"
        /\ pc = "Acquiring" /\ Len(acq) = 1
        /\ acq' = Append(acq, o)
        /\ IF o = "Ok"
           THEN /\ frame' = Texture(surface)
                /\ pc' = "Recording"
                /\ UNCHANGED <<exit_code, dropped>>
           ELSE /\ pc' = "Aborted"
                /\ exit_code' = <<PanicCode>>
                /\ dropped' = DropOrder(program)
                /\ UNCHANGED frame
        /\ UNCHANGED <<fixedVars, passVars, hostVars, surfVars, gpuVars, tick, wrote_tick,
                       submitted_tick, presented_tick, control_flow, seenVars>>

\* create_view, create_command_encoder, a render pass that clears to black.
WgpuRecord ==
    /\ program = "wgpu_test"
    /\ pc = "Recording"
    /\ encoder' = <<ClearBlack>>
    /\ pc' = "Submitting"
    /\ UNCHANGED <<fixedVars, drawn, hostVars, surfVars, gpuVars, tickVars,
                   control_flow, exit_code, dropped, seenVars>>

\* state.queue.submit(Some(encoder.finish()))
WgpuSubmit ==
    /\ program = "wgpu_test"
    /\ pc = "Submitting"
    /\ drawn' = Draws(encoder, resources, model_buffer)
    /\ encoder' = <<>>
    /\ submitted_tick' = tick
    /\ pc' = "Presenting"
    /\ UNCHANGED <<fixedVars, hostVars, surfVars, gpuVars, frame, acq, tick,
                   wrote_tick, presented_tick, control_flow, exit_code, dropped, seenVars>>

\* frame.present(); the closure returns.
WgpuPresent ==
    /\ program = "wgpu_test"
    /\ pc = "Presenting"
    /\ presented_tick' = tick
    /\ frame' = NoFrame
    /\ pc' = "Idle"
    /\ UNCHANGED <<fixedVars, passVars, hostVars, surfVars, gpuVars, acq, tick, wrote_tick,
                   submitted_tick, control_flow, exit_code, dropped, seenVars>>

----------------------------------------------------------------------------
\* rotating-cube: the closure of event_loop.run, State::update, State::render.

\* Variant: a Resized event recomputes the camera for the new aspect ratio.
CubeIgnoreEvent_ResizeCamera ==
    /\ program = "rotating_cube"
    /\ Deliverable
    /\ events # <<>>
    /\ events' = Tail(events)
    /\ last_resized' = IF Head(events).type = "Resized" THEN Head(events).size
                                                        ELSE last_resized
    /\ camera_buffer' = IF Head(events).type = "Resized"
                        THEN CameraUniform(Head(events).size[1], Head(events).size[2])
                        ELSE camera_buffer
    /\ close_processed' = (close_processed \/ Head(events).type = "CloseRequested")
    /\ UNCHANGED <<fixedVars, passVars, window_size, redraw_requested, surfVars, rotation,
                   model_buffer, queue, draw_model, tickVars, procVars>>

\* match event { ..., _ => {} }: every window event is dropped.
CubeIgnoreEvent ==
    /\ program = "rotating_cube"
    /\ Deliverable
    /\ events # <<>>
    /\ events' = Tail(events)
    /\ last_resized' = IF Head(events).type = "Resized" THEN Head(events).size
                                                        ELSE last_resized
    /\ close_processed' = (close_processed \/ Head(events).type = "CloseRequested")
    /\ UNCHANGED <<fixedVars, passVars, window_size, redraw_requested, surfVars, gpuVars,
                   tickVars, procVars>>

\* Variant: the closure calls render() without update().
CubeMainEventsCleared_NoUpdate ==
    /\ program = "rotating_cube"
    /\ Deliverable
    /\ events = <<>>
    /\ tick < MaxTicks
    /\ tick' = tick + 1
    /\ acq' = <<>>
    /\ pc' = "Acquiring"
    /\ UNCHANGED <<fixedVars, passVars, hostVars, surfVars, gpuVars, frame, wrote_tick,
                   submitted_tick, presented_tick, control_flow, exit_code, dropped,
                   seenVars>>

\* Event::MainEventsCleared => { state.update(); state.render(); }: a tick starts.
CubeMainEventsCleared ==
    /\ program = "rotating_cube"
    /\ Deliverable
    /\ events = <<>>
    /\ tick < MaxTicks
    /\ tick' = tick + 1
    /\ acq' = <<>>
    /\ pc' = "Updating"
    /\ UNCHANGED <<fixedVars, passVars, hostVars, surfVars, gpuVars, frame, wrote_tick,
                   submitted_tick, presented_tick, control_flow, exit_code, dropped,
                   seenVars>>

\* Variant: the angle advances by two steps per update.
CubeUpdate_DoubleStep ==
    /\ program = "rotating_cube"
    /\ pc = "Updating"
    /\ rotation' = F32Add(F32Add(rotation, RotationStep), RotationStep)
    /\ queue' = Append(queue, ModelTransform(rotation'))
    /\ wrote_tick' = tick
    /\ pc' = "Acquiring"
    /\ UNCHANGED <<fixedVars, passVars, hostVars, surfVars, model_buffer, camera_buffer,
                   draw_model, frame, acq, tick, submitted_tick, presented_tick,
                   control_flow, exit_code, dropped, seenVars>>

\* State::update: self.rotation += 0.01; the model matrix of the new angle is
\* handed to queue.write_buffer, which stages it for the next submit.
CubeUpdate ==
    /\ program = "rotating_cube"
    /\ pc = "Updating"
    /\ rotation' = F32Add(rotation, RotationStep)
    /\ queue' = Append(queue, ModelTransform(rotation'))
    /\ wrote_tick' = tick
    /\ pc' = "Acquiring"
    /\ UNCHANGED <<fixedVars, passVars, hostVars, surfVars, model_buffer, camera_buffer,
                   draw_model, frame, acq, tick, submitted_tick, presented_tick,
                   control_flow, exit_code, dropped, seenVars>>

\* Variant: an acquisition error is swallowed and the frame goes on.
CubeAcquire_Swallow ==
    \E o \in Outcomes :
        /\ program = "rotating_cube"
        /\ pc = "Acquiring"
        /\ acq' = Append(acq, o)
        /\ frame' = Texture(surface)
        /\ pc' = "Recording"
        /\ UNCHANGED <<fixedVars, passVars, hostVars, surfVars, gpuVars, tick, wrote_tick,
                       submitted_tick, presented_tick, control_flow, exit_code, dropped,
                       seenVars>>

\* State::render: self.surface.get_current_texture().unwrap(); Err panics.
CubeAcquire ==
    \E o \in Outcomes :
        /\ program = "rotating_cube"
        /\ pc = "Acquiring"
        /\ acq' = Append(acq, o)
        /\ IF o = "Ok"
           THEN /\ frame' = Texture(surface)
                /\ pc' = "Recording"
                /\ UNCHANGED <<exit_code, dropped>>
           ELSE /\ pc' = "Aborted"
                /\ exit_code' = <<PanicCode>>
                /\ dropped' = DropOrder(program)
                /\ UNCHANGED frame
        /\ UNCHANGED <<fixedVars, passVars, hostVars, surfVars, gpuVars, tick, wrote_tick,
                       submitted_tick, presented_tick, control_flow, seenVars>>

\* create_view, create_command_encoder, the render pass with draw_indexed.
CubeRecord ==
    /\ program = "rotating_cube"
    /\ pc = "Recording"
    /\ encoder' = <<ClearBlack, DrawIndexed(resources.num_indices.count)>>
    /\ pc' = "Submitting"
    /\ UNCHANGED <<fixedVars, drawn, hostVars, surfVars, gpuVars, tickVars,
                   control_flow, exit_code, dropped, seenVars>>

\* Variant: the staged writes are not applied before the pass runs.
Flush_Stale(buffer, staged) == buffer

\* The buffer after the staged writes have been applied in order.
Flush(buffer, staged) == IF staged = <<>> THEN buffer ELSE staged[Len(staged)]

\* self.queue.submit: the staged writes land, then the pass runs and its draw
\* reads the model buffer.
CubeSubmit ==
    /\ program = "rotating_cube"
    /\ pc = "Submitting"
    /\ model_buffer' = Flush(model_buffer, queue)
    /\ queue' = <<>>
    /\ draw_model' = model_buffer'
    /\ drawn' = Draws(encoder, resources, model_buffer')
    /\ encoder' = <<>>
    /\ submitted_tick' = tick
    /\ pc' = "Presenting"
    /\ UNCHANGED <<fixedVars, hostVars, surfVars, rotation, camera_buffer, frame,
                   acq, tick, wrote_tick, presented_tick, control_flow, exit_code, dropped,
                   seenVars>>

\* Variant: render returns without frame.present(); the image is dropped.
CubePresent_Drop ==
    /\ program = "rotating_cube"
    /\ pc = "Presenting"
    /\ frame' = NoFrame
    /\ pc' = "Idle"
    /\ UNCHANGED <<fixedVars, passVars, hostVars, surfVars, gpuVars, acq, tick, wrote_tick,
                   submitted_tick, presented_tick, control_flow, exit_code, dropped,
                   seenVars>>

\* frame.present(); render returns and the closure with it.
CubePresent ==
    /\ program = "rotating_cube"
    /\ pc = "Presenting"
    /\ presented_tick' = tick
    /\ frame' = NoFrame
    /\ pc' = "Idle"
    /\ UNCHANGED <<fixedVars, passVars, hostVars, surfVars, gpuVars, acq, tick, wrote_tick,
                   submitted_tick, control_flow, exit_code, dropped, seenVars>>

----------------------------------------------------------------------------
\* Specifications.

NextWgpu ==
    \/ HostResize
    \/ HostClose
    \/ LoopExit
    \/ WgpuCloseRequested
    \/ WgpuResized
    \/ WgpuMainEventsCleared
    \/ WgpuRedrawRequested
    \/ WgpuAcquire
    \/ WgpuRetryAcquire
    \/ WgpuRecord
    \/ WgpuSubmit
    \/ WgpuPresent

NextCube ==
    \/ HostResize
    \/ HostClose
    \/ CubeIgnoreEvent
    \/ CubeMainEventsCleared
    \/ CubeUpdate
    \/ CubeAcquire
    \/ CubeRecord
    \/ CubeSubmit
    \/ CubePresent

Next == NextWgpu \/ NextCube

\* Either program.
Spec == Init /\ [][Next]_vars
\* wgpu-test alone.
SpecWgpu == InitWgpu /\ [][NextWgpu]_vars
\* rotating-cube alone.
SpecCube == InitCube /\ [][NextCube]_vars

----------------------------------------------------------------------------
\* rotating-cube from the start of main: State::new, then the event loop.

InitCubeNew ==
    /\ program = "rotating_cube"
    /\ pc = "New"
    /\ control_flow = "Poll"
    /\ window_size \in InputSizes
    /\ start_size = window_size
    /\ events = <<>>
    /\ redraw_requested = FALSE
    /\ caps \in [formats : FormatLists, present_modes : PresentModeLists]
    /\ config = Unset
    /\ surface = Unset
    /\ rotation = Unset
    /\ model_buffer = Unset
    /\ camera_buffer = Unset
    /\ queue = <<>>
    /\ frame = NoFrame
    /\ acq = <<>>
    /\ tick = 0
    /\ wrote_tick = 0
    /\ submitted_tick = 0
    /\ presented_tick = 0
    /\ draw_model = NoDraw
    /\ last_resized = NoSize
    /\ close_processed = FALSE
    /\ exit_code = NoCode
    /\ created = <<>>
    /\ resources = NoResources
    /\ dropped = <<>>
    /\ encoder = <<>>
    /\ drawn = <<>>
    /\ received = <<>>
    /\ tasks = <<>>
    /\ stdout = <<>>
    /\ stderr = <<>>
    /\ finished = <<>>

Range(f) == {f[i] : i \in DOMAIN f}

RECURSIVE Reverse(_)
Reverse(q) == IF q = <<>> THEN <<>> ELSE Append(Reverse(Tail(q)), Head(q))

\* Number of calls of State::new that have returned.
StepsDone ==
    CHOOSE i \in 0..Len(CubeNewSteps) :
        Len(Flatten(SubSeq(CubeNewSteps, 1, i))) = Len(created)

\* The next call of State::new returns what it creates.
CubeNew ==
    /\ program = "rotating_cube"
    /\ pc = "New"
    /\ LET made == Range(CubeNewSteps[StepsDone + 1])
           cfg  == IF "config" \in made THEN CubeConfig(caps, start_size) ELSE config
       IN  /\ created' = created \o CubeNewSteps[StepsDone + 1]
           /\ config' = cfg
           /\ surface' = IF "config" \in made THEN Configure(cfg) ELSE surface
           /\ camera_buffer' = IF "camera_buffer" \in made
                                THEN CameraUniform(config.width, config.height)
                                ELSE camera_buffer
           /\ model_buffer' = IF "model_buffer" \in made THEN Identity ELSE model_buffer
           /\ resources' =
                  [vertex_buffer |-> IF "vertex_buffer" \in made THEN VertexBuffer
                                     ELSE resources.vertex_buffer,
                   index_buffer |-> IF "index_buffer" \in made THEN IndexBuffer
                                    ELSE resources.index_buffer,
                   num_indices |-> IF "state" \in made THEN NumIndices
                                   ELSE resources.num_indices,
                   bind_group |-> IF "bind_group" \in made THEN BindGroup
                                  ELSE resources.bind_group,
                   render_pipeline |-> IF "render_pipeline" \in made
                                       THEN RenderPipeline(config)
                                       ELSE resources.render_pipeline]
           /\ rotation' = IF "state" \in made THEN 0 ELSE rotation
           /\ pc' = IF StepsDone + 1 = Len(CubeNewSteps) THEN "Idle" ELSE "New"
    /\ UNCHANGED <<program, caps, start_size, kafkaVars, passVars, hostVars, queue,
                   draw_model,
                   tickVars, control_flow, exit_code, dropped, seenVars>>

\* Variant: a failed call is ignored and the event loop is entered.
CubeNewFails_Enter ==
    /\ program = "rotating_cube"
    /\ pc = "New"
    /\ StepsDone >= 1
    /\ StepsDone + 1 < Len(CubeNewSteps)
    /\ pc' = "Idle"
    /\ UNCHANGED <<fixedVars, passVars, hostVars, surfVars, gpuVars, tickVars,
                   control_flow, exit_code, dropped, seenVars>>

\* A call of State::new fails: unwrap() on the surface, the adapter or the
\* device, or a creation call whose validation error is fatal. The panic
\* unwinds State::new, dropping its locals in reverse order of declaration,
\* and ends the process.
CubeNewFails ==
    /\ program = "rotating_cube"
    /\ pc = "New"
    /\ StepsDone >= 1
    /\ StepsDone + 1 < Len(CubeNewSteps)
    /\ pc' = "Aborted"
    /\ exit_code' = <<PanicCode>>
    /\ dropped' = Reverse(created)
    /\ UNCHANGED <<fixedVars, passVars, hostVars, surfVars, gpuVars, tickVars,
                   control_flow, seenVars>>

NextCubeLife == CubeNew \/ CubeNewFails \/ NextCube

SpecCubeLife == InitCubeNew /\ [][NextCubeLife]_vars

----------------------------------------------------------------------------
\* kafka-connector: the consume loop of main and the tasks it spawns.

\* m.payload_view::<str>(): None, Some(Err(Utf8Error)) or Some(Ok(s)).
PayloadViews == {<<"None">>, <<"Some", "Err">>, <<"Some", "Ok", "hello">>}

\* What stream.next().await yields: Some(Ok(msg)) or Some(Err(e)).
OkItem(view) == [kind |-> "Ok", view |-> view]
ErrItem == [kind |-> "Err", view |-> <<>>]
\* stream.next().await yields None: the stream has ended.
EndItem == [kind |-> "End", view |-> <<>>]

\* let payload = match m.payload_view::<str>() { Some(Ok(s)) => s.to_string(),
\*                                              _ => "<invalid utf8>".into() }
Placeholder == "<invalid utf8>"
Payload(view) ==
    IF Len(view) = 3 /\ view[1] = "Some" /\ view[2] = "Ok" THEN view[3]
    ELSE Placeholder

\* task::spawn(process_message(msg.detach())): the new task owns a copy of
\* the message and has not been polled yet; payload is <<>> until the task
\* has bound its local `payload`.
Spawn(n, view) == [msg |-> n, view |-> view, stage |-> "Spawned", payload |-> <<>>]

\* Everything of the model that belongs to the windowed programs.
windowVars == <<caps, start_size, created, resources, passVars, hostVars, surfVars,
                gpuVars, tickVars, control_flow, dropped, seenVars>>

\* State after consumer.subscribe and consumer.stream(), before the first
\* stream.next().
InitKafka ==
    /\ program = "kafka_connector"
    /\ pc = "Polling"
    /\ exit_code = NoCode
    /\ received = <<>>
    /\ tasks = <<>>
    /\ stdout = <<>>
    /\ stderr = <<>>
    /\ finished = <<>>
    /\ control_flow = "Poll"
    /\ window_size = NoSize
    /\ start_size = NoSize
    /\ events = <<>>
    /\ redraw_requested = FALSE
    /\ caps = Unset
    /\ config = Unset
    /\ surface = Unset
    /\ rotation = Unset
    /\ model_buffer = Unset
    /\ camera_buffer = Unset
    /\ queue = <<>>
    /\ frame = NoFrame
    /\ acq = <<>>
    /\ tick = 0
    /\ wrote_tick = 0
    /\ submitted_tick = 0
    /\ presented_tick = 0
    /\ draw_model = NoDraw
    /\ last_resized = NoSize
    /\ close_processed = FALSE
    /\ created = <<>>
    /\ resources = NoResources
    /\ dropped = <<>>
    /\ encoder = <<>>
    /\ drawn = <<>>

\* Variant: the loop awaits the task it has spawned before it reads on.
KafkaRecvOk_Join ==
    \E view \in PayloadViews :
        /\ program = "kafka_connector"
        /\ pc = "Polling"
        /\ Len(received) < MaxItems
        /\ \A i \in DOMAIN tasks : tasks[i].stage = "Done"
        /\ received' = Append(received, OkItem(view))
        /\ tasks' = Append(tasks, Spawn(Len(received) + 1, view))
        /\ UNCHANGED <<program, pc, exit_code, stdout, stderr, finished, windowVars>>

\* Ok(msg) => { task::spawn(process_message(msg.detach())); }
KafkaRecvOk ==
    \E view \in PayloadViews :
        /\ program = "kafka_connector"
        /\ pc = "Polling"
        /\ Len(received) < MaxItems
        /\ received' = Append(received, OkItem(view))
        /\ tasks' = Append(tasks, Spawn(Len(received) + 1, view))
        /\ UNCHANGED <<program, pc, exit_code, stdout, stderr, finished, windowVars>>

\* Variant: a read error ends the loop.
KafkaRecvErr_Break ==
    /\ program = "kafka_connector"
    /\ pc = "Polling"
    /\ Len(received) < MaxItems
    /\ received' = Append(received, ErrItem)
    /\ stderr' = Append(stderr, Len(received) + 1)
    /\ pc' = "Returned"
    /\ exit_code' = <<0>>
    /\ UNCHANGED <<program, tasks, stdout, finished, windowVars>>

\* Err(e) => eprintln!("Error reading message: {:?}", e)
KafkaRecvErr ==
    /\ program = "kafka_connector"
    /\ pc = "Polling"
    /\ Len(received) < MaxItems
    /\ received' = Append(received, ErrItem)
    /\ stderr' = Append(stderr, Len(received) + 1)
    /\ UNCHANGED <<program, pc, exit_code, tasks, stdout, finished, windowVars>>

\* When main returns the runtime is shut down: a task that has not returned
\* is dropped where it stands.
Shutdown(t) == IF t.stage = "Done" THEN t ELSE [t EXCEPT !.stage = "Cancelled"]

\* stream.next().await yields None: the while let loop ends and main returns.
KafkaStreamEnd ==
    /\ program = "kafka_connector"
    /\ pc = "Polling"
    /\ received' = Append(received, EndItem)
    /\ pc' = "Returned"
    /\ exit_code' = <<0>>
    /\ tasks' = [i \in DOMAIN tasks |-> Shutdown(tasks[i])]
    /\ UNCHANGED <<program, stdout, stderr, finished, windowVars>>

\* First poll of a task: process_message takes the payload, prints it and
\* suspends in tokio::time::sleep.
TaskStart ==
    \E i \in DOMAIN tasks :
        /\ program = "kafka_connector"
        /\ tasks[i].stage = "Spawned"
        /\ tasks' = [tasks EXCEPT ![i].payload = <<Payload(tasks[i].view)>>,
                                  ![i].stage = "Sleeping"]
        /\ stdout' = Append(stdout, Payload(tasks[i].view))
        /\ UNCHANGED <<program, pc, exit_code, received, stderr, finished, windowVars>>

\* The sleep of a task is over: process_message returns.
TaskFinish ==
    \E i \in DOMAIN tasks :
        /\ program = "kafka_connector"
        /\ tasks[i].stage = "Sleeping"
        /\ tasks' = [tasks EXCEPT ![i].stage = "Done"]
        /\ finished' = Append(finished, tasks[i].msg)
        /\ UNCHANGED <<program, pc, exit_code, received, stdout, stderr, windowVars>>

NextKafka ==
    \/ KafkaRecvOk
    \/ KafkaRecvErr
    \/ KafkaStreamEnd
    \/ TaskStart
    \/ TaskFinish

SpecKafka == InitKafka /\ [][NextKafka]_vars

----------------------------------------------------------------------------
\* Properties.

LastAcq == acq[Len(acq)]
ConfigSize == <<config.width, config.height>>

\* Completed State::update calls.
Updates == IF pc = "Updating" THEN tick - 1 ELSE tick

\* The angle after n single-precision additions of the step to 0.0.
RECURSIVE AngleAfter(_)
AngleAfter(n) == IF n = 0 THEN 0 ELSE F32Add(AngleAfter(n - 1), RotationStep)

\* Unit in the last place of an f32 value (units of 2^-31).
Ulp(x) == IF BitLen(x) <= MantissaBits THEN 1 ELSE Pow2(BitLen(x) - MantissaBits)

Abs(x) == IF x < 0 THEN -x ELSE x

\* C1: whenever the first acquisition of a tick fails as Outdated, the surface
\* is reconfigured with the current config and acquisition is attempted once
\* more in the same tick; a successful retry lets the tick go on to Recording,
\* Submitting and Presenting.
C1_RetryOnOutdated ==
    /\ (acq # <<>> /\ acq[1] = "Outdated") =>
           \/ Len(acq) = 2
           \/ pc = "Acquiring" /\ surface = Configure(config)
    /\ (Len(acq) = 2 /\ acq[2] = "Ok") =>
           pc \in {"Recording", "Submitting", "Presenting", "Idle", "Exited"}

\* C2: a tick makes at most two acquisition attempts: a second attempt is made
\* only after a failed first one and always follows it, a failed second attempt
\* ends the process, and nothing stays in Acquiring after two attempts.
C2_AtMostOneRetry ==
    /\ Len(acq) <= 2
    /\ Len(acq) = 2 => IsErr(acq[1])
    /\ (acq # <<>> /\ IsErr(acq[1]) /\ pc # "Acquiring") => Len(acq) = 2
    /\ (Len(acq) = 2 /\ IsErr(acq[2])) => (pc = "Aborted" /\ exit_code = <<PanicCode>>)
    /\ pc = "Acquiring" => Len(acq) < 2

C2_Witness ==
    /\ program = "wgpu_test"
    /\ pc = "Aborted"
    /\ Len(acq) = 2 /\ acq[1] = "Outdated" /\ IsErr(acq[2])

\* Where each step of tick number `tick` stands at each position of the closure.
TickOrder ==
    /\ pc = "Updating" =>
           wrote_tick < tick /\ submitted_tick < tick /\ presented_tick < tick
    /\ pc \in {"Acquiring", "Recording", "Submitting", "Aborted"} =>
           wrote_tick = tick /\ submitted_tick < tick /\ presented_tick < tick
    /\ pc = "Presenting" =>
           wrote_tick = tick /\ submitted_tick = tick /\ presented_tick < tick
    /\ pc = "Idle" =>
           wrote_tick = tick /\ submitted_tick = tick /\ presented_tick = tick

StepOrder ==
    /\ \/ pc' = pc
       \/ <<pc, pc'>> \in {<<"Idle", "Updating">>, <<"Updating", "Acquiring">>,
                           <<"Acquiring", "Recording">>, <<"Acquiring", "Aborted">>,
                           <<"Recording", "Submitting">>,
                           <<"Submitting", "Presenting">>, <<"Presenting", "Idle">>}
    /\ tick' = IF pc = "Idle" /\ pc' = "Updating" THEN tick + 1 ELSE tick
    /\ Len(acq') <= 2

\* C3: every tick goes Updating, Acquiring, Recording, Submitting, Presenting
\* and back to Idle, one step at a time and each step once (a fatal acquisition
\* error ends the tick in Acquiring); the model write of a tick precedes its
\* submission, which precedes its present.
C3_TickOrder == []TickOrder /\ [][StepOrder]_vars

C3_Witness == pc = "Idle" /\ tick >= 2 /\ presented_tick = tick

C5_ResizeApplied ==
    last_resized # NoSize =>
        /\ ConfigSize = last_resized
        /\ surface = Configure(config)

\* C6: a tick whose acquisition finally fails submits nothing and presents
\* nothing, and the process is aborted at once; recording, submission and
\* present happen only with a successfully acquired image.
C6_FailedFrameNeverPresented ==
    /\ (\/ pc \in {"Recording", "Submitting", "Presenting"}
        \/ tick >= 1 /\ (submitted_tick = tick \/ presented_tick = tick)) =>
           (acq # <<>> /\ LastAcq = "Ok")
    /\ (acq # <<>> /\ IsErr(LastAcq) /\ pc # "Acquiring") => pc = "Aborted"
    /\ pc = "Aborted" =>
           /\ acq # <<>> /\ IsErr(LastAcq)
           /\ submitted_tick < tick /\ presented_tick < tick
           /\ frame = NoFrame
           /\ exit_code = <<PanicCode>>

C6_Witness == pc = "Aborted" /\ presented_tick >= 1

\* C7: the camera buffer holds the view-projection matrix written at startup
\* in every reachable state.
C7_CameraNeverRewritten ==
    camera_buffer = CameraUniform(start_size[1], start_size[2])

C7_Witness ==
    /\ pc = "Idle" /\ tick >= 1 /\ presented_tick = tick
    /\ last_resized # NoSize /\ last_resized # start_size

\* C8 as stated: after N completed updates the angle is N times the step (the
\* single-precision product N * 0.01).
C8_AngleIsProduct == rotation = RoundF32(Updates * RotationStep)

\* C8 amended: the angle starts at 0 and after N completed updates is the
\* result of N single-precision additions of the step; it equals the product
\* N * 0.01 up to N = 5 and stays within N/2 units in the last place of the
\* exact multiple; nothing but the Updating step changes it.
C8_AngleIsAccumulated ==
    /\ rotation = AngleAfter(Updates)
    /\ Updates <= 5 => rotation = RoundF32(Updates * RotationStep)
    /\ 2 * Abs(Updates * RotationStep - rotation) <= Updates * Ulp(rotation)

C8_Witness == pc = "Idle" /\ Updates = 6 /\ last_resized # NoSize

\* C9: an acquisition failure of a kind other than Outdated is not retried:
\* it is fatal and ends the process.
C9_OnlyOutdatedRetried ==
    (acq # <<>> /\ acq[1] \in SurfaceErrors \ {"Outdated"}) =>
        (pc = "Aborted" /\ Len(acq) = 1)

\* C10: once a close request has been processed no further tick starts and
\* the process does not end in an abort.
C10_CloseStopsTicks ==
    [][close_processed => (tick' = tick /\ pc' # "Aborted")]_vars


\* C11: once a Resized notification for (W', H') has been processed, the image
\* a tick acquires and presents has size (W', H'), and likewise after a
\* resize back to the first size.
C11_ImageHasResizedSize ==
    (last_resized # NoSize /\ frame # NoFrame) =>
        <<frame.width, frame.height>> = last_resized

\* The long-lived GPU resources of rotating-cube.
LongLived ==
    {"device", "queue", "surface", "config", "vertex_buffer", "index_buffer",
     "camera_buffer", "model_buffer", "bind_group", "render_pipeline"}

CreatedInOrder ==
    /\ \A i, j \in DOMAIN created : created[i] = created[j] => i = j
    /\ \A i \in DOMAIN created :
           \A d \in Deps[created[i]] : \E j \in 1..(i - 1) : created[j] = d
    /\ (tick >= 1 \/ pc \notin {"New", "Aborted"}) => LongLived \subseteq Range(created)
    /\ Running => dropped = <<>>

HeldForTheRun ==
    /\ Len(created') >= Len(created)
    /\ SubSeq(created', 1, Len(created)) = created
    /\ pc # "New" => (created' = created /\ resources' = resources)
    /\ dropped' # dropped => pc' \in {"Exited", "Aborted"}

\* C12: every long-lived resource is created exactly once, after the resources
\* its creation call uses, and all of them before the first tick; once
\* State::new has returned no step (tick or window event) creates, replaces or
\* destroys one.
C12_CreatedOnceInOrder == []CreatedInOrder /\ [][HeldForTheRun]_vars

C12_Witness ==
    /\ pc = "Idle" /\ tick >= 2 /\ presented_tick = tick
    /\ last_resized # NoSize
    /\ created = NewOrder(program)
    /\ resources = CubeResources(config)

\* A tick runs from the start of Updating (rotating-cube) or of the first
\* acquisition (wgpu-test) to the end of Presenting.
InTick == pc \in {"Updating", "Acquiring", "Recording", "Submitting", "Presenting"}

\* No queued event is taken out of the queue.
NoEventProcessed ==
    /\ Len(events') >= Len(events)
    /\ SubSeq(events', 1, Len(events)) = events
    /\ last_resized' = last_resized
    /\ close_processed' = close_processed
    /\ redraw_requested' = redraw_requested
    /\ control_flow' = control_flow

\* C13 as stated: inside a tick no event is processed, and neither SurfaceConfig
\* nor the window size changes.
C13_WindowFixedInTick ==
    [][InTick => (NoEventProcessed /\ config' = config /\ window_size' = window_size)]_vars

\* C13: inside a tick no resize, close or redraw event is processed, so
\* SurfaceConfig and the size last reported to the closure do not change; the
\* host may resize the window itself meanwhile and queue the event.
C13_TickAtomic ==
    [][InTick => (NoEventProcessed /\ config' = config)]_vars

C13_Witness ==
    /\ pc = "Presenting"
    /\ events # <<>> /\ Head(events).type = "Resized"
    /\ window_size # ConfigSize

\* C14: the index buffer holds 36 indices (12 triangles), each in 0..7, and
\* together they reference all 8 vertices of the vertex buffer; the commands a
\* tick submits contain exactly one indexed draw, over all 36 indices, with one
\* instance.
C14_OneDrawOfWholeCube ==
    LET ib == resources.index_buffer.indices
        nv == Len(resources.vertex_buffer.floats) \div FloatsPerVertex
    IN  /\ Len(ib) = 36 /\ Len(ib) = 3 * 12
        /\ nv = 8
        /\ \A i \in DOMAIN ib : ib[i] \in 0..7
        /\ Range(ib) = 0..(nv - 1)
        /\ resources.num_indices.count = 36
        /\ pc = "Submitting" =>
               Len(SelectSeq(encoder, LAMBDA c : c.op = "draw_indexed")) = 1
        /\ submitted_tick = 0 => drawn = <<>>
        /\ submitted_tick >= 1 =>
               /\ Len(drawn) = 1
               /\ drawn[1].indices = ib
               /\ drawn[1].instances = 1

C14_Witness ==
    /\ pc = "Idle" /\ tick >= 2 /\ presented_tick = tick
    /\ Len(drawn) = 1 /\ Len(drawn[1].indices) = 36

\* The format the preference rule selects from the reported list.
PreferredFormat(formats) ==
    LET srgb == SelectSeq(formats, IsSrgb)
    IN  IF srgb # <<>> THEN srgb[1] ELSE formats[1]

\* C15: the configured format is the first sRGB format of the reported list if
\* there is one and the first reported format otherwise, and the presentation
\* mode is FIFO whatever the backend reports first.
C15_PreferredFormatAndFifo ==
    /\ config.format = PreferredFormat(caps.formats)
    /\ config.present_mode = "Fifo"

\* A step of a tick: the step that starts it or a step taken inside it.
TickStep == InTick \/ (pc = "Idle" /\ pc' \in {"Updating", "Acquiring"})

\* The step that takes a Resized event out of the queue.
ResizeStep ==
    /\ pc = "Idle" /\ events # <<>> /\ Head(events).type = "Resized"
    /\ events' = Tail(events)

TickKeepsResources ==
    TickStep =>
        /\ config' = config
        /\ surface' = surface
        /\ resources' = resources
        /\ created' = created
        /\ camera_buffer' = camera_buffer
        /\ rotation' # rotation => pc = "Updating"
        /\ model_buffer' # model_buffer => pc = "Submitting"

ResizeKeepsResources ==
    ResizeStep =>
        /\ config'.format = config.format
        /\ config'.present_mode = config.present_mode
        /\ UNCHANGED <<resources, created, gpuVars, tickVars, passVars>>

\* C16: the steps of a tick, the reconfigure-and-retry of wgpu-test included,
\* leave SurfaceConfig, the vertex and index buffers, the bind group (binding
\* 0 the camera buffer, binding 1 the model buffer), the pipeline and the
\* camera buffer as they were, and change only the angle, the model buffer and
\* the per-tick objects; processing a Resized event changes nothing of these
\* but the width and height of SurfaceConfig.
C16_TickAndResizeFootprint ==
    /\ [](program = "rotating_cube" =>
              resources.bind_group.entries = <<"camera_buffer", "model_buffer">>)
    /\ [][TickKeepsResources /\ ResizeKeepsResources]_vars

C16_Witness ==
    /\ program = "wgpu_test" /\ pc = "Presenting"
    /\ Len(acq) = 2 /\ acq[1] = "Outdated"
    /\ last_resized # NoSize /\ last_resized # start_size

\* Position of x in the sequence q, 0 if it does not occur.
Pos(q, x) == IF x \in Range(q) THEN CHOOSE i \in DOMAIN q : q[i] = x ELSE 0

\* The resources created from the device or bound to it.
DeviceDependents ==
    {"surface", "vertex_buffer", "index_buffer", "camera_buffer", "model_buffer",
     "bind_group", "render_pipeline"}

\* The sequence q without the elements outside the set keep.
Restrict(q, keep) == SelectSeq(q, LAMBDA x : x \in keep)

\* C17: once the process has ended, no resource that depends on the device
\* was released after the device, and the resources were released in the
\* reverse of the order they were created in.
C17_DependentsReleasedFirst ==
    dropped # <<>> =>
        /\ \A r \in DeviceDependents \cap Range(dropped) :
               Pos(dropped, r) < Pos(dropped, "device")
        /\ Restrict(dropped, Range(created))
               = Reverse(Restrict(created, Range(dropped)))

\* C18: in a run where a call of State::new has failed, the process has ended
\* with a panic before the event loop was entered: no update, acquisition,
\* submission or present has been or will be executed.
C18_FailedInitNeverTicks ==
    Len(created) < Len(NewOrder(program)) =>
        /\ pc \in {"New", "Aborted"}
        /\ tick = 0 /\ wrote_tick = 0 /\ submitted_tick = 0 /\ presented_tick = 0
        /\ acq = <<>> /\ queue = <<>> /\ frame = NoFrame /\ drawn = <<>>
        /\ pc = "Aborted" => (exit_code = <<PanicCode>> /\ ~ENABLED NextCubeLife)

C18_Witness ==
    /\ pc = "Aborted"
    /\ "device" \in Range(created)
    /\ "render_pipeline" \notin Range(created)

\* An acquired image is held only on the way from its acquisition to its
\* present, and a tick that has returned has presented the image it acquired.
ImageOnItsWay ==
    /\ frame # NoFrame =>
           /\ pc \in {"Recording", "Submitting", "Presenting"}
           /\ acq # <<>> /\ LastAcq = "Ok"
           /\ presented_tick < tick
    /\ (pc \in {"Idle", "Exited"} /\ tick >= 1) => presented_tick = tick
    /\ (acq # <<>> /\ LastAcq = "Ok" /\ frame = NoFrame) => presented_tick = tick

ImageSteps ==
    /\ (acq' # acq /\ acq' # <<>> /\ acq'[Len(acq')] = "Ok") =>
           (frame = NoFrame /\ frame' # NoFrame)
    /\ (frame = NoFrame /\ frame' # NoFrame) =>
           (acq' # acq /\ acq'[Len(acq')] = "Ok")
    /\ (frame # NoFrame /\ frame' # frame) =>
           /\ frame' = NoFrame
           /\ pc = "Presenting"
           /\ submitted_tick = tick
           /\ presented_tick < tick /\ presented_tick' = tick
    /\ presented_tick' # presented_tick => (frame # NoFrame /\ frame' = NoFrame)

\* C19: an image is acquired only while none is outstanding, and every acquired
\* image is presented exactly once, by the tick that acquired it and after
\* that tick's submission; none is dropped unpresented or presented twice.
C19_OneImagePresentedOnce == []ImageOnItsWay /\ [][ImageSteps]_vars

C19_Witness ==
    /\ pc = "Idle" /\ tick >= 2 /\ presented_tick = tick
    /\ Len(acq) = 2 /\ LastAcq = "Ok" /\ frame = NoFrame

\* C20: the surface is never configured with a zero width or height: once a
\* Resized event has been processed, a resize to 0x0 included, the
\* configuration the surface holds (from the handler or from a later retry)
\* has width > 0 and height > 0.
C20_NeverConfiguredZero ==
    last_resized # NoSize => (surface.width > 0 /\ surface.height > 0)

\* The positions in received of the messages read successfully, in order.
OkPositions == SelectSeq([i \in DOMAIN received |-> i], LAMBDA i : received[i].kind = "Ok")

\* C21: every message read successfully has exactly one task, spawned for it
\* and holding its copy of the message, each task prints and returns at most
\* once, and while the stream has items the loop can read the next one
\* whatever the tasks spawned so far are doing - so tasks overlap and may
\* return in another order than their messages were received.
C21_OneTaskPerMessageNoWait ==
    /\ [i \in DOMAIN tasks |-> tasks[i].msg] = OkPositions
    /\ \A i \in DOMAIN tasks : tasks[i].view = received[tasks[i].msg].view
    /\ \A i, j \in DOMAIN finished : finished[i] = finished[j] => i = j
    /\ Range(finished) = {tasks[i].msg : i \in {k \in DOMAIN tasks : tasks[k].stage = "Done"}}
    /\ Len(stdout) = Cardinality({i \in DOMAIN tasks : tasks[i].payload # <<>>})
    /\ (pc = "Polling" /\ Len(received) < MaxItems) => ENABLED KafkaRecvOk

C21_Witness ==
    /\ pc = "Polling"
    /\ \E i, j, k \in DOMAIN tasks :
           /\ i < j /\ j < k
           /\ tasks[i].stage = "Sleeping"
           /\ tasks[j].stage = "Done"
           /\ tasks[k].stage = "Sleeping"

\* The positions in received of the read errors, in order.
ErrPositions == SelectSeq([i \in DOMAIN received |-> i], LAMBDA i : received[i].kind = "Err")

\* Read errors are reported and nothing else; the loop has ended exactly when
\* the stream has; a task that has bound its payload holds the payload text of
\* its message, or the placeholder if that payload is absent or not UTF-8.
ErrorsSkipped ==
    /\ stderr = ErrPositions
    /\ Len(tasks) = Len(received) - Len(ErrPositions)
                       - (IF pc = "Returned" THEN 1 ELSE 0)
    /\ pc \in {"Polling", "Returned"}
    /\ pc = "Polling" => (exit_code = NoCode /\ ENABLED KafkaStreamEnd)
    /\ pc = "Returned" <=> (received # <<>> /\ received[Len(received)] = EndItem)
    /\ \A i \in DOMAIN received : received[i] = EndItem => i = Len(received)
    /\ \A i \in DOMAIN tasks :
           tasks[i].payload # <<>> =>
               tasks[i].payload =
                   << IF received[tasks[i].msg].view = <<"Some", "Ok", "hello">>
                      THEN "hello" ELSE "<invalid utf8>" >>

\* The step that reads an error.
ErrStep ==
    /\ Len(received') = Len(received) + 1
    /\ received'[Len(received')].kind = "Err"

ErrStepSkips ==
    ErrStep =>
        /\ tasks' = tasks
        /\ Len(stderr') = Len(stderr) + 1
        /\ pc' = "Polling"
        /\ exit_code' = NoCode

\* C22: a read error is reported and skipped: it spawns no task and the loop
\* goes on to the next stream item, ending only when the stream ends; a
\* message with an absent or non-UTF-8 payload gets its task like any other
\* and is processed with the placeholder payload.
C22_ErrorsSkippedPlaceholderUsed == []ErrorsSkipped /\ [][ErrStepSkips]_vars

C22_Witness ==
    /\ pc = "Polling"
    /\ \E i, j, k \in DOMAIN received :
           /\ i < j /\ j < k
           /\ received[i].kind = "Err"
           /\ received[j] = OkItem(<<"Some", "Err">>)
           /\ received[k] = OkItem(<<"None">>)
    /\ \E a, b \in DOMAIN tasks :
           /\ tasks[a].view = <<"Some", "Err">> /\ tasks[a].stage = "Done"
           /\ tasks[b].view = <<"None">> /\ tasks[b].payload = <<Placeholder>>

============================================================================
